---------------------------- MODULE Spec2Model ----------------------------
(***************************************************************************)
(* Model of the DefiLlama scraping pipeline: the item pipeline             *)
(* (defillama/pipelines.py), which normalises a scraped item, derives the  *)
(* P/E ratio and appends a row to the SQLite table defillama_metrics, and  *)
(* the readers of that table (query_database.py, load_dataframe.py).       *)
(*                                                                         *)
(* Python strings are sequences of one-character strings.  Python values   *)
(* are records [kind, s, m, e]: kind "str" carries the characters s; kind  *)
(* "num" is the number m * 10^e (m without trailing zeros, so that equal   *)
(* numbers are equal records); kind "none" is None / SQL NULL; kind        *)
(* "absent" is a key the item does not hold; kind "nan" is float("nan").   *)
(***************************************************************************)
EXTENDS Integers, Sequences, FiniteSets, TLC

VARIABLES
    defillama_metrics, \* the committed rows of the table, in the order of their ids
    pending,           \* the rows inserted in the pipeline's open transaction
    conn,              \* the pipeline's connection: "open" or "closed"
    item,              \* the item drawn for process_item (SpecItem, SpecConvert)
    pc,                \* "idle"; under SpecItem "drawn", then "done"; under
                       \* SpecConvert also "input", then "converted"
    lastOp             \* the last operation: its name, argument, whether it
                       \* raised, how the store answered, the state of the
                       \* connection it opened, and what it returned

vars == <<defillama_metrics, pending, conn, item, pc, lastOp>>

(***************************************************************************)
(* Bounds of the model.                                                    *)
(***************************************************************************)
\* most rows (committed or inserted) the table is let to hold
MaxRows == 2
\* datetime.now() returns a value of 0..MaxTime
MaxTime == 1

(***************************************************************************)
(* Python values.                                                          *)
(***************************************************************************)
Str(chars) == [kind |-> "str", s |-> chars, m |-> 0, e |-> 0]
None == [kind |-> "none", s |-> <<>>, m |-> 0, e |-> 0]
Absent == [kind |-> "absent", s |-> <<>>, m |-> 0, e |-> 0]
\* float("nan"): the float that is not a number
NaN == [kind |-> "nan", s |-> <<>>, m |-> 0, e |-> 0]

RECURSIVE NormNum(_, _)
\* the number m * 10^e in its canonical form
NormNum(m, e) ==
    IF m = 0 THEN [kind |-> "num", s |-> <<>>, m |-> 0, e |-> 0]
    ELSE IF m % 10 = 0 THEN NormNum(m \div 10, e + 1)
    ELSE [kind |-> "num", s |-> <<>>, m |-> m, e |-> e]

Num(n) == NormNum(n, 0)

\* Python truthiness of a value: bool(v)
Truthy(v) ==
    CASE v.kind = "str" -> v.s # <<>>
      [] v.kind = "num" -> v.m # 0
      [] v.kind = "nan" -> TRUE
      [] OTHER -> FALSE

\* item.get(key)
Get(v) == IF v.kind = "absent" THEN None ELSE v

\* item.get(key, default)
GetDefault(v, d) == IF v.kind = "absent" THEN d ELSE v

NotFound == Str(<<"N", "o", "t", " ", "f", "o", "u", "n", "d">>)

NotCalculable ==
    Str(<<"N", "o", "t", " ", "c", "a", "l", "c", "u", "l", "a", "b", "l", "e">>)

(***************************************************************************)
(* Python string methods.                                                  *)
(***************************************************************************)
\* s.replace(c, "")
Remove(s, c) == SelectSeq(s, LAMBDA x : x # c)

RECURSIVE LStrip(_)
LStrip(s) == IF s # <<>> /\ Head(s) = " " THEN LStrip(Tail(s)) ELSE s

RECURSIVE RStrip(_)
RStrip(s) ==
    IF s # <<>> /\ s[Len(s)] = " " THEN RStrip(SubSeq(s, 1, Len(s) - 1)) ELSE s

\* s.strip()
Strip(s) == RStrip(LStrip(s))

LowerChar(c) ==
    CASE c = "B" -> "b"
      [] c = "M" -> "m"
      [] c = "N" -> "n"
      [] OTHER -> c

\* s.lower()
Lower(s) == [i \in DOMAIN s |-> LowerChar(s[i])]

\* c in s
Contains(s, c) == \E i \in DOMAIN s : s[i] = c

Digits == <<"0", "1", "2", "3", "4", "5", "6", "7", "8", "9">>

IsDigit(c) == \E d \in DOMAIN Digits : Digits[d] = c

DigitVal(c) == (CHOOSE d \in DOMAIN Digits : Digits[d] = c) - 1

RECURSIVE DigitsToInt(_)
DigitsToInt(s) ==
    IF s = <<>> THEN 0
    ELSE 10 * DigitsToInt(SubSeq(s, 1, Len(s) - 1)) + DigitVal(s[Len(s)])

RECURSIVE IntToDigits(_)
IntToDigits(n) ==
    IF n < 10 THEN <<Digits[n + 1]>>
    ELSE IntToDigits(n \div 10) \o <<Digits[(n % 10) + 1]>>

RECURSIVE Pow10(_)
Pow10(n) == IF n <= 0 THEN 1 ELSE 10 * Pow10(n - 1)

\* float(s) for a string of digits, ".", a sign and blanks, and for "nan" in
\* any case: [ok, v]; ok is FALSE where float raises ValueError.  (Exponents,
\* underscores and "inf" need characters the model's inputs do not hold.)
ParseFloat(s) ==
    LET t == Strip(s)
        signed == t # <<>> /\ Head(t) \in {"-", "+"}
        neg == t # <<>> /\ Head(t) = "-"
        body == IF signed THEN Tail(t) ELSE t
        dots == {i \in DOMAIN body : body[i] = "."}
        digs == Remove(body, ".")
        wellFormed == /\ \A i \in DOMAIN body : IsDigit(body[i]) \/ body[i] = "."
                      /\ Cardinality(dots) <= 1
                      /\ digs # <<>>
        fracLen == IF dots = {} THEN 0 ELSE Len(body) - (CHOOSE i \in dots : TRUE)
        mant == DigitsToInt(digs)
    IN  IF Lower(body) = <<"n", "a", "n">>
        THEN [ok |-> TRUE, v |-> NaN]
        ELSE IF wellFormed
        THEN [ok |-> TRUE, v |-> NormNum(IF neg THEN 0 - mant ELSE mant, 0 - fracLen)]
        ELSE [ok |-> FALSE, v |-> None]

\* x * 10^k for a float x
Scale(x, k) == IF x.kind = "nan" THEN NaN ELSE NormNum(x.m, x.e + k)

(***************************************************************************)
(* DefillamaPipeline._convert_to_number                                    *)
(***************************************************************************)
\* a conversion that looks for the suffix without lowering the string
ConvertCaseSensitive(v) ==
    IF v.kind # "str" THEN None
    ELSE
        LET clean_str == Strip(Remove(Remove(v.s, "$"), ","))
            p == IF Contains(clean_str, "b") THEN ParseFloat(Remove(clean_str, "b"))
                 ELSE IF Contains(clean_str, "m") THEN ParseFloat(Remove(clean_str, "m"))
                 ELSE ParseFloat(clean_str)
            k == IF Contains(clean_str, "b") THEN 9
                 ELSE IF Contains(clean_str, "m") THEN 6
                 ELSE 0
        IN  IF p.ok THEN Scale(p.v, k) ELSE None

_convert_to_number(v) ==
    IF v.kind # "str" THEN None                  \* AttributeError, caught
    ELSE
        LET clean_str == Strip(Remove(Remove(v.s, "$"), ","))
            low == Lower(clean_str)
            p == IF Contains(low, "b") THEN ParseFloat(Remove(low, "b"))
                 ELSE IF Contains(low, "m") THEN ParseFloat(Remove(low, "m"))
                 ELSE ParseFloat(clean_str)
            k == IF Contains(low, "b") THEN 9
                 ELSE IF Contains(low, "m") THEN 6
                 ELSE 0
        IN  IF p.ok THEN Scale(p.v, k) ELSE None  \* ValueError, caught


(***************************************************************************)
(* DefillamaPipeline.process_item: the steps before the row is stored.     *)
(***************************************************************************)
\* the cleaning of one display field
CleanField(v) ==
    IF Truthy(Get(v)) /\ v.kind = "str"
    THEN Str(Strip(Remove(Remove(v.s, "$"), ",")))
    ELSE v

\* the outer condition of the ratio: both originals truthy, neither "Not found"
RatioAttempted(original_market_cap, original_annual_revenue) ==
    /\ Truthy(original_market_cap)
    /\ Truthy(original_annual_revenue)
    /\ original_market_cap # NotFound
    /\ original_annual_revenue # NotFound

\* original_market_cap.strip() raises AttributeError on a value that is no string
ProcessRaises(it) ==
    /\ RatioAttempted(Get(it.market_cap), Get(it.annual_revenue))
    /\ \/ Get(it.market_cap).kind # "str"
       \/ Get(it.annual_revenue).kind # "str"

\* a guard that forgets the sign of the revenue
RatioGuardNoSign(market_cap_num, annual_revenue_num) == Truthy(market_cap_num) /\ Truthy(annual_revenue_num)

\* the inner condition of the ratio
RatioGuard(market_cap_num, annual_revenue_num) ==
    /\ Truthy(market_cap_num)
    /\ Truthy(annual_revenue_num)
    /\ annual_revenue_num.m > 0

Abs(n) == IF n < 0 THEN 0 - n ELSE n

\* the nearest integer to num / den (num >= 0, den > 0), ties to even: the
\* rounding of the format, exact where the quotient of the two floats is (no
\* quotient of the model's inputs is a tie that a float cannot hold)
RoundHalfEven(num, den) ==
    LET q == num \div den
        r == num % den
    IN  IF 2 * r > den \/ (2 * r = den /\ q % 2 = 1) THEN q + 1 ELSE q

\* f"{x:.2f}" of the number sign * h / 100
Format2f(neg, h) ==
    (IF neg THEN <<"-">> ELSE <<>>)
        \o IntToDigits(h \div 100)
        \o <<".", Digits[((h \div 10) % 10) + 1], Digits[(h % 10) + 1]>>

\* f"{market_cap_num / annual_revenue_num:.2f}"
FormatRatio(market_cap_num, annual_revenue_num) ==
    LET k == market_cap_num.e - annual_revenue_num.e + 2
        num == Abs(market_cap_num.m) * Pow10(k)
        den == Abs(annual_revenue_num.m) * Pow10(0 - k)
        neg == (market_cap_num.m < 0) # (annual_revenue_num.m < 0)
    IN  IF market_cap_num.kind = "nan"
        THEN Str(<<"n", "a", "n">>)
        ELSE Str(Format2f(neg, RoundHalfEven(num, den)))

\* item["pe_ratio"] as process_item sets it (for an item that does not raise)
pe_ratio(it) ==
    LET original_market_cap == Get(it.market_cap)
        original_annual_revenue == Get(it.annual_revenue)
    IN  IF RatioAttempted(original_market_cap, original_annual_revenue)
        THEN LET market_cap_num == _convert_to_number(Str(Strip(original_market_cap.s)))
                 annual_revenue_num == _convert_to_number(Str(Strip(original_annual_revenue.s)))
             IN  IF RatioGuard(market_cap_num, annual_revenue_num)
                 THEN FormatRatio(market_cap_num, annual_revenue_num)
                 ELSE NotCalculable
        ELSE NotCalculable

\* the item as process_item hands it to store_in_database and returns it
ProcessedItem(it) ==
    [protocol |-> it.protocol,
     market_cap |-> CleanField(it.market_cap),
     annual_revenue |-> CleanField(it.annual_revenue),
     pe_ratio |-> pe_ratio(it)]

(***************************************************************************)
(* DefillamaPipeline.store_in_database and the table defillama_metrics.    *)
(***************************************************************************)
Times == 0 .. MaxTime

\* pe_ratio_num: NULL for the sentinel, float(...) otherwise; [ok, v], ok
\* FALSE where float raises
pe_ratio_num(v) ==
    IF Get(v) = NotCalculable THEN [ok |-> TRUE, v |-> None]
    ELSE ParseFloat(GetDefault(v, Str(<<"0">>)).s)

\* a float bound to a parameter of the statement: SQLite stores nan as NULL
Bind(v) == IF v.kind = "nan" THEN None ELSE v

\* the values of the INSERT statement, with the id AUTOINCREMENT assigns
Row(id, ts, ticker, market_cap_num, annual_revenue_num, pe) ==
    [id |-> id,
     timestamp |-> ts,
     ticker |-> ticker,
     price |-> None,
     market_cap |-> Bind(market_cap_num),
     annualized_revenue |-> Bind(annual_revenue_num),
     pe_ratio |-> Bind(pe)]

\* id INTEGER PRIMARY KEY AUTOINCREMENT: one more than the largest id in the table
NextId == Len(defillama_metrics) + Len(pending) + 1

\* a commit that keeps only the newest row of each ticker
CommitUpsert(committed, txn) ==
    LET all == committed \o txn
    IN  SelectSeq(all, LAMBDA r : \A q \in {all[i] : i \in DOMAIN all} :
                                      q.ticker = r.ticker => q.id <= r.id)

\* self.conn.commit(): the rows of the open transaction become persistent
Commit(committed, txn) == committed \o txn

NoOp ==
    [op |-> "none", arg |-> None, raised |-> FALSE, outcome |-> "none",
     conn |-> "none", result |-> <<>>]

NoItem ==
    [protocol |-> Absent, market_cap |-> Absent, annual_revenue |-> Absent,
     pe_ratio |-> Absent]

\* what the storage engine answers to the insert and the commit: both done,
\* the insert refused, the commit refused with the transaction left open
\* (SQLITE_BUSY), the commit refused and the transaction rolled back
StoreOutcomes == {"committed", "insert_failed", "commit_busy", "commit_rolled_back"}

\* the insert and the commit of row and the except branch; converted is FALSE
\* where a conversion before the insert raised
InsertAndCommit(out, converted, row, answer) ==
    LET outcome == IF ~converted THEN "value_error"
                   ELSE IF row.ticker.kind = "none" THEN "integrity_error"
                   ELSE answer
    IN  /\ defillama_metrics' = IF outcome = "committed"
                                THEN Commit(defillama_metrics, Append(pending, row))
                                ELSE defillama_metrics
        /\ pending' = CASE outcome = "commit_busy" -> Append(pending, row)
                        [] outcome \in {"committed", "commit_rolled_back"} -> <<>>
                        [] OTHER -> pending
        /\ lastOp' = [op |-> "process_item", arg |-> None, raised |-> FALSE,
                      outcome |-> outcome, conn |-> "none", result |-> <<out>>]

\* store_in_database(out): the clock and the storage engine are the environment's
store_in_database(out) ==
    LET market_cap_num ==
            _convert_to_number(GetDefault(out.market_cap, Str(<<"0">>)))
        annual_revenue_num ==
            _convert_to_number(GetDefault(out.annual_revenue, Str(<<"0">>)))
        pe == pe_ratio_num(out.pe_ratio)
        ticker == GetDefault(out.protocol, Str(<<>>))
    IN  \E ts \in Times, answer \in StoreOutcomes :
            InsertAndCommit(out, pe.ok,
                            Row(NextId, ts, ticker, market_cap_num,
                                annual_revenue_num, pe.v),
                            answer)

\* process_item(it, spider)
process_item(it) ==
    /\ conn = "open"
    /\ Len(defillama_metrics) + Len(pending) < MaxRows
    /\ UNCHANGED <<conn, item>>
    /\ IF ProcessRaises(it)
       THEN /\ lastOp' = [op |-> "process_item", arg |-> None, raised |-> TRUE,
                          outcome |-> "raised", conn |-> "none", result |-> <<>>]
            /\ UNCHANGED <<defillama_metrics, pending>>
       ELSE store_in_database(ProcessedItem(it))

\* close_spider: the connection is closed, an open transaction is rolled back
close_spider ==
    /\ conn = "open"
    /\ conn' = "closed"
    /\ pending' = <<>>
    /\ lastOp' = [NoOp EXCEPT !.op = "close_spider", !.conn = "closed"]
    /\ UNCHANGED <<defillama_metrics, item, pc>>

\* __init__ / setup_database of the next run
setup_database ==
    /\ conn = "closed"
    /\ conn' = "open"
    /\ lastOp' = [NoOp EXCEPT !.op = "setup_database", !.conn = "open"]
    /\ UNCHANGED <<defillama_metrics, pending, item, pc>>

(***************************************************************************)
(* The readers: query_database.py and load_dataframe.py.  A reader sees    *)
(* the committed rows only.                                                *)
(***************************************************************************)
Alpha == Str(<<"a", "l", "p", "h", "a">>)

Beta == Str(<<"b", "e", "t", "a">>)

\* the tickers a row can hold, in the order GROUP BY and groupby sort them
TickerOrder == <<Str(<<>>), Alpha, Beta>>

RowSet(table) == {table[i] : i \in DOMAIN table}

\* the sequences that hold every element of S once
Perms(S) ==
    {q \in [1 .. Cardinality(S) -> S] :
        \A i, j \in 1 .. Cardinality(S) : i # j => q[i] # q[j]}

\* an ordering that puts the oldest row first
OrderByTimestampAsc(S) ==
    {q \in Perms(S) :
        \A i, j \in DOMAIN q : i < j => q[i].timestamp <= q[j].timestamp}

\* ORDER BY timestamp DESC: every order SQLite may return (rows of equal
\* timestamp come in an order the statement does not fix)
OrderByTimestampDesc(S) ==
    {q \in Perms(S) :
        \A i, j \in DOMAIN q : i < j => q[i].timestamp >= q[j].timestamp}

\* LIMIT 1
Limit1(q) == IF q = <<>> THEN <<>> ELSE <<q[1]>>

\* WHERE id IN (SELECT MAX(id) FROM defillama_metrics GROUP BY ticker)
MaxIdPerTicker(S) ==
    {r \in S : \A q \in S : q.ticker = r.ticker => q.id <= r.id}

\* the columns query_database selects
Project(r) ==
    [timestamp |-> r.timestamp, ticker |-> r.ticker, price |-> r.price,
     market_cap |-> r.market_cap, annualized_revenue |-> r.annualized_revenue,
     pe_ratio |-> r.pe_ratio]

\* SELECT ticker, MAX(timestamp) ... GROUP BY ticker
LatestTimestamps(S) ==
    LET present == SelectSeq(TickerOrder, LAMBDA k : \E r \in S : r.ticker = k)
    IN  [i \in DOMAIN present |->
            [ticker |-> present[i],
             latest_timestamp |->
                 CHOOSE t \in Times :
                     /\ \E r \in S : r.ticker = present[i] /\ r.timestamp = t
                     /\ \A r \in S : r.ticker = present[i] => r.timestamp <= t]]

\* the first value of a column that is not null, NaN where all are null
FirstNonNull(col) ==
    IF \E i \in DOMAIN col : col[i] # None
    THEN col[CHOOSE i \in DOMAIN col :
                 /\ col[i] # None
                 /\ \A j \in DOMAIN col : col[j] # None => i <= j]
    ELSE None

\* df.groupby('ticker').first().reset_index(): per ticker, column by column
\* the first value that is not null
GroupByFirst(df) ==
    LET present == SelectSeq(TickerOrder,
                             LAMBDA k : \E i \in DOMAIN df : df[i].ticker = k)
        group(k) == SelectSeq(df, LAMBDA r : r.ticker = k)
        column(g, f) == [i \in DOMAIN g |-> g[i][f]]
    IN  [n \in DOMAIN present |->
            LET g == group(present[n])
            IN  [id |-> g[1].id,
                 timestamp |-> g[1].timestamp,
                 ticker |-> present[n],
                 price |-> FirstNonNull(column(g, "price")),
                 market_cap |-> FirstNonNull(column(g, "market_cap")),
                 annualized_revenue |-> FirstNonNull(column(g, "annualized_revenue")),
                 pe_ratio |-> FirstNonNull(column(g, "pe_ratio"))]]

\* a reader's statement fails (the database is locked): the except branch
ReadFailed(name, ticker) ==
    [op |-> name, arg |-> ticker, raised |-> FALSE, outcome |-> "error",
     conn |-> "open", result |-> <<>>]

ReadDone(name, ticker, closed, result) ==
    [op |-> name, arg |-> ticker, raised |-> FALSE, outcome |-> "ok",
     conn |-> closed, result |-> result]

\* query_database.query_database()
query_database ==
    /\ \/ lastOp' = ReadFailed("query_database", None)
       \/ \E q \in OrderByTimestampDesc(MaxIdPerTicker(RowSet(defillama_metrics))) :
              LET df == [i \in DOMAIN q |-> Project(q[i])]
              IN  lastOp' = ReadDone("query_database", None,
                                     IF df = <<>> THEN "open" ELSE "closed", df)
    /\ UNCHANGED <<defillama_metrics, pending, conn, item, pc>>

QueryTickers == {Alpha, Beta, None}

\* query_database.get_latest_data(ticker)
get_latest_data ==
    /\ \E ticker \in QueryTickers :
          \/ lastOp' = ReadFailed("get_latest_data", ticker)
          \/ /\ Truthy(ticker)
             /\ \E q \in OrderByTimestampDesc({r \in RowSet(defillama_metrics) : r.ticker = ticker}) :
                    lastOp' = ReadDone("get_latest_data", ticker, "closed", Limit1(q))
          \/ /\ ~Truthy(ticker)
             /\ lastOp' = ReadDone("get_latest_data", ticker, "closed",
                                   LatestTimestamps(RowSet(defillama_metrics)))
    /\ UNCHANGED <<defillama_metrics, pending, conn, item, pc>>

\* load_dataframe.load_historical_data()
load_historical_data ==
    /\ \/ lastOp' = ReadFailed("load_historical_data", None)
       \/ \E df \in OrderByTimestampDesc(RowSet(defillama_metrics)) :
              lastOp' = ReadDone("load_historical_data", None, "closed", df)
    /\ UNCHANGED <<defillama_metrics, pending, conn, item, pc>>

\* load_dataframe.get_latest_data(df, ticker), df a frame load_historical_data
\* returns for the table as it is
df_get_latest_data ==
    /\ \E ticker \in QueryTickers, df \in OrderByTimestampDesc(RowSet(defillama_metrics)) :
          lastOp' = ReadDone("df_get_latest_data", ticker, "none",
                             IF Truthy(ticker)
                             THEN Limit1(SelectSeq(df, LAMBDA r : r.ticker = ticker))
                             ELSE GroupByFirst(df))
    /\ UNCHANGED <<defillama_metrics, pending, conn, item, pc>>

(***************************************************************************)
(* The items the spider hands to the pipeline.                             *)
(***************************************************************************)
\* raw field values: magnitude strings, the sentinel, malformed strings,
\* None, a missing key and numbers
RawValues ==
    {Str(<<"$", "1", "0", "B">>), Str(<<"$", "2", "B">>), Str(<<"$", "4", "B">>),
     Str(<<"$", "6", "B">>), Str(<<"$", "1", "B">>), Str(<<"0">>),
     Str(<<"-", "1", "B">>), Str(<<" ", "1", ".", "5", "b", " ">>),
     Str(<<"2", "0", "0", "M">>), Str(<<"1", ",", "0", "0", "0", "M">>),
     Str(<<"1", "b", "m">>), Str(<<"$">>), Str(<<" ">>), Str(<<>>),
     NotFound, None, Absent, Num(0), Num(5)}

Protocols == {Alpha, Str(<<>>), None, Absent}

\* the items process_item is applied to one at a time
WideItems ==
    {[protocol |-> p, market_cap |-> mc, annual_revenue |-> rev, pe_ratio |-> Absent] :
        p \in Protocols, mc \in RawValues, rev \in RawValues}

Item(p, mc, rev) ==
    [protocol |-> p, market_cap |-> Str(mc), annual_revenue |-> Str(rev),
     pe_ratio |-> Absent]

\* the items of the runs that append to the table
StoreItems ==
    {Item(Alpha, <<"$", "4", "B">>, <<"$", "1", "B">>),
     Item(Alpha, <<"$", "6", "B">>, <<"$", "1", "B">>),
     Item(Beta, <<"$", "4", "B">>, <<"$", "1", "B">>),
     [Item(Alpha, <<>>, <<"$", "1", "B">>) EXCEPT !.market_cap = NotFound],
     [Item(Alpha, <<"$", "4", "B">>, <<"$", "1", "B">>) EXCEPT !.protocol = None],
     [Item(Alpha, <<"$", "4", "B">>, <<"$", "1", "B">>) EXCEPT !.market_cap = Num(5)]}

(***************************************************************************)
(* The specifications.                                                     *)
(***************************************************************************)
\* the spider yields an item and the pipeline processes it
Scrape ==
    /\ pc = "idle"
    /\ \E it \in StoreItems : process_item(it)
    /\ UNCHANGED pc

Init ==
    /\ defillama_metrics = <<>>
    /\ pending = <<>>
    /\ conn = "open"
    /\ item = NoItem
    /\ pc = "idle"
    /\ lastOp = NoOp

Next ==
    \/ Scrape
    \/ close_spider
    \/ setup_database
    \/ query_database
    \/ get_latest_data
    \/ load_historical_data
    \/ df_get_latest_data

\* the pipeline and the readers over any sequence of runs
Spec == Init /\ [][Next]_vars

\* process_item applied to the drawn item
ProcessDrawn ==
    /\ pc = "drawn"
    /\ process_item(item)
    /\ pc' = "done"

InitItem ==
    /\ defillama_metrics = <<>>
    /\ pending = <<>>
    /\ conn = "open"
    /\ item \in WideItems
    /\ pc = "drawn"
    /\ lastOp = NoOp

NextItem == ProcessDrawn

\* one process_item call on a fresh table, for every item of WideItems
SpecItem == InitItem /\ [][NextItem]_vars

(***************************************************************************)
(* The arguments _convert_to_number is applied to.                         *)
(***************************************************************************)
\* decimal numbers as the page writes them, each with its value m * 10^e
Decimals ==
    {[text |-> <<"1", ".", "5">>, m |-> 15, e |-> 0 - 1],
     [text |-> <<"2", "5", "0">>, m |-> 250, e |-> 0],
     [text |-> <<"1">>, m |-> 1, e |-> 0],
     [text |-> <<"0">>, m |-> 0, e |-> 0],
     [text |-> <<"1", "2">>, m |-> 12, e |-> 0],
     [text |-> <<"0", ".", "0", "7">>, m |-> 7, e |-> 0 - 2],
     [text |-> <<"1", ",", "0", "0", "0">>, m |-> 1000, e |-> 0],
     [text |-> <<"1", ",", "2", "3", "4", ".", "5">>, m |-> 12345, e |-> 0 - 1],
     [text |-> <<"2", ",", "5", "0", "0", ",", "0", "0", "0">>, m |-> 2500000, e |-> 0],
     [text |-> <<"-", "3">>, m |-> 0 - 3, e |-> 0]}

\* the unit suffixes with the power of ten each stands for; none is 10^0
Suffixes ==
    {[text |-> <<"b">>, k |-> 9], [text |-> <<"B">>, k |-> 9],
     [text |-> <<"m">>, k |-> 6], [text |-> <<"M">>, k |-> 6],
     [text |-> <<>>, k |-> 0]}

\* the magnitude strings: an optional "$", a decimal number, a suffix or none
Magnitudes ==
    {[text |-> d \o n.text \o u.text, m |-> n.m, e |-> n.e, k |-> u.k] :
        d \in {<<>>, <<"$">>}, n \in Decimals, u \in Suffixes}

\* strings that are no magnitude, among them the page's rendering of a
\* missing figure
Malformed ==
    {NotFound, Str(<<>>), Str(<<"$">>), Str(<<" ">>), Str(<<"$", ",">>),
     Str(<<"B">>), Str(<<"$", "m">>), Str(<<"1", "b", "m">>),
     Str(<<"1", ".", "2", ".", "3", "B">>), Str(<<"-">>), Str(<<"-", "B">>),
     Str(<<"N", "a", "N">>), Str(<<"$", "N", "a", "N">>),
     Str(<<"N", "a", "N", "B">>)}

\* values that are no string: None and numbers
NonStrings == {None, Num(0), Num(5), NormNum(25, 0 - 1), NormNum(15, 8)}

ConvertInputs == {Str(g.text) : g \in Magnitudes} \cup Malformed \cup NonStrings

\* the items of WideItems and items with a field the page rendered as "NaN"
ConvertItems ==
    WideItems \cup
        {[protocol |-> Alpha, market_cap |-> mc, annual_revenue |-> rev,
          pe_ratio |-> Absent] :
            mc \in {Str(<<"$", "1", "B">>), Str(<<"$", "N", "a", "N">>)},
            rev \in {Str(<<"$", "1", "B">>), Str(<<"N", "a", "N">>)}}

\* self._convert_to_number(lastOp.arg): both exceptions the conversions can
\* raise on a string, None or a number are caught inside
ConvertDrawn ==
    /\ pc = "input"
    /\ pc' = "converted"
    /\ lastOp' = [op |-> "_convert_to_number", arg |-> lastOp.arg,
                  raised |-> FALSE, outcome |-> "ok", conn |-> "none",
                  result |-> <<_convert_to_number(lastOp.arg)>>]
    /\ UNCHANGED <<defillama_metrics, pending, conn, item>>

InitConvert ==
    /\ defillama_metrics = <<>>
    /\ pending = <<>>
    /\ conn = "open"
    /\ \/ /\ pc = "input"
          /\ item = NoItem
          /\ lastOp \in {[NoOp EXCEPT !.arg = v] : v \in ConvertInputs}
       \/ /\ pc = "drawn"
          /\ item \in ConvertItems
          /\ lastOp = NoOp

NextConvert ==
    \/ ConvertDrawn
    \/ ProcessDrawn

\* one _convert_to_number call for every argument of ConvertInputs, and one
\* process_item call on a fresh table for every item of ConvertItems
SpecConvert == InitConvert /\ [][NextConvert]_vars

(***************************************************************************)
(* Properties of process_item, checked under SpecItem.                     *)
(***************************************************************************)
\* the raw fields are what the spider can yield: a string, None or no key
StringItem(it) ==
    /\ it.market_cap.kind \in {"str", "none", "absent"}
    /\ it.annual_revenue.kind \in {"str", "none", "absent"}

\* the field is missing, "Not found" or does not parse
Unusable(v) ==
    \/ v.kind \in {"absent", "none"}
    \/ v = NotFound
    \/ _convert_to_number(v) = None

\* the storage engine failed the insert or the commit of the last append
StorageFailed(op) == op.outcome \in StoreOutcomes \ {"committed"}

\* C1: the ratio process_item returns is marketCap / revenue to two decimal
\* places exactly when both raw values are present, neither is "Not found",
\* both parse and the parsed revenue is above zero (whatever the parsed market
\* cap, zero included), and is "Not calculable" in every other case.
C1RatioWheneverRevenuePositive ==
    (pc = "done" /\ StringItem(item) /\ ~lastOp.raised) =>
        lastOp.result[1].pe_ratio =
            IF /\ ~Unusable(item.market_cap)
               /\ ~Unusable(item.annual_revenue)
               /\ _convert_to_number(item.annual_revenue).m > 0
            THEN FormatRatio(_convert_to_number(item.market_cap),
                             _convert_to_number(item.annual_revenue))
            ELSE NotCalculable

\* C2: every persisted row with a pe_ratio has a market_cap and an
\* annualized_revenue, the revenue above zero; and the row of an item whose
\* market cap or revenue is missing, "Not found" or unparseable has no pe_ratio.
C2PeRatioNeedsPositiveRevenue ==
    /\ \A r \in RowSet(defillama_metrics) :
           r.pe_ratio # None =>
               /\ r.market_cap # None
               /\ r.annualized_revenue # None
               /\ r.annualized_revenue.m > 0
    /\ (pc = "done" /\ (Unusable(item.market_cap) \/ Unusable(item.annual_revenue))) =>
           \A r \in RowSet(defillama_metrics) : r.pe_ratio = None

\* C2, its case: ("$10B", "$2B") is stored with the ratio 5
C2Witness ==
    /\ pc = "done"
    /\ item.market_cap = Str(<<"$", "1", "0", "B">>)
    /\ item.annual_revenue = Str(<<"$", "2", "B">>)
    /\ \E r \in RowSet(defillama_metrics) :
           /\ r.pe_ratio = Num(5)
           /\ r.market_cap = NormNum(1, 10)
           /\ r.annualized_revenue = NormNum(2, 9)

\* C7: no persisted row has an empty or null ticker, whatever the item held.
C7TickerNeverEmpty ==
    \A r \in RowSet(defillama_metrics) : r.ticker.kind = "str" /\ r.ticker.s # <<>>

\* C9: process_item does not raise and appends exactly one row; a field that
\* is missing, "Not found" or malformed is stored as null, a parseable field
\* with its parsed value, and the entity key as given.
C9MalformedFieldStoredAsNull ==
    (/\ pc = "done"
     /\ StringItem(item)
     /\ Truthy(item.protocol)
     /\ ~StorageFailed(lastOp)) =>
        /\ ~lastOp.raised
        /\ Len(defillama_metrics) = 1
        /\ defillama_metrics[1].ticker = item.protocol
        /\ defillama_metrics[1].market_cap =
               IF Unusable(item.market_cap) THEN None
               ELSE _convert_to_number(item.market_cap)
        /\ defillama_metrics[1].annualized_revenue =
               IF Unusable(item.annual_revenue) THEN None
               ELSE _convert_to_number(item.annual_revenue)

(***************************************************************************)
(* Properties of the store and its readers, checked under Spec.            *)
(***************************************************************************)
ReadOk(name) == lastOp.op = name /\ lastOp.outcome = "ok"

\* the persisted rows of ticker k
RowsOf(k) == {r \in RowSet(defillama_metrics) : r.ticker = k}

\* the persisted row of ticker k with the highest id
Newest(k) == CHOOSE r \in RowsOf(k) : \A q \in RowsOf(k) : q.id <= r.id

\* C3: the latest-for-key read returns the record of the key with the highest
\* id, and an empty result for a key without records, whatever the timestamps.
C3LatestForKeyIsHighestId ==
    (ReadOk("get_latest_data") /\ Truthy(lastOp.arg)) =>
        lastOp.result =
            IF RowsOf(lastOp.arg) = {} THEN <<>> ELSE <<Newest(lastOp.arg)>>

\* the result holds one record per ticker that has rows, the one `want` names
OnePerKey(result, want(_)) ==
    /\ \A i \in DOMAIN result : RowsOf(result[i].ticker) # {}
    /\ \A r \in RowSet(defillama_metrics) :
           /\ Cardinality({i \in DOMAIN result : result[i].ticker = r.ticker}) = 1
           /\ \E i \in DOMAIN result : result[i] = want(r.ticker)

\* the clock advanced between any two appends
ClockAdvanced ==
    \A i, j \in DOMAIN defillama_metrics : i < j => defillama_metrics[i].timestamp < defillama_metrics[j].timestamp

\* C4: the latest-per-key read returns exactly one record per key that has
\* records, nothing for other keys, and that record is field for field the
\* stored record of the key with the highest id (stated for query_database
\* whatever the timestamps, and for load_dataframe's get_latest_data where the
\* timestamps grow with the ids, so that only the fields are in question).
C4LatestPerKeyIsOneStoredRecord ==
    /\ ReadOk("query_database") =>
           OnePerKey(lastOp.result, LAMBDA k : Project(Newest(k)))
    /\ (ReadOk("df_get_latest_data") /\ ~Truthy(lastOp.arg) /\ ClockAdvanced) =>
           OnePerKey(lastOp.result, LAMBDA k : Newest(k))

\* C5: the store is append-only: a persisted record stays persisted and
\* unchanged, and the persisted records change only in an append.
C5AppendOnly ==
    [][/\ \A i \in DOMAIN defillama_metrics : i \in DOMAIN defillama_metrics' /\ defillama_metrics'[i] = defillama_metrics[i]
       /\ defillama_metrics' # defillama_metrics => lastOp'.op = "process_item"]_vars

\* C5, its case: a full read after two appends
C5Witness ==
    /\ Len(defillama_metrics) = 2
    /\ ReadOk("load_historical_data")
    /\ Len(lastOp.result) = 2

\* the table holds the two alpha records of the scenario, in that order
Scenario ==
    /\ Len(defillama_metrics) = 2
    /\ defillama_metrics[1].ticker = Alpha /\ defillama_metrics[2].ticker = Alpha
    /\ defillama_metrics[1].market_cap = NormNum(4, 9) /\ defillama_metrics[2].market_cap = NormNum(6, 9)
    /\ defillama_metrics[1].annualized_revenue = NormNum(1, 9)
    /\ defillama_metrics[2].annualized_revenue = NormNum(1, 9)

C8FailedAppendNeverPersists ==
    [][lastOp'.op = "process_item" =>
           /\ StorageFailed(lastOp') =>
                  /\ ~lastOp'.raised
                  /\ lastOp'.result # <<>>
                  /\ defillama_metrics' = defillama_metrics
           /\ defillama_metrics' # defillama_metrics =>
                  /\ Len(defillama_metrics') = Len(defillama_metrics) + 1
                  /\ SubSeq(defillama_metrics', 1, Len(defillama_metrics)) = defillama_metrics]_vars

\* C10: every operation that opens a connection has closed it when it ends.
C10ConnectionClosedOnEveryExit ==
    /\ lastOp.op \in {"query_database", "get_latest_data", "load_historical_data"} =>
           lastOp.conn = "closed"
    /\ lastOp.op = "close_spider" => conn = "closed"

(***************************************************************************)
(* Properties of _convert_to_number, checked under SpecConvert.            *)
(***************************************************************************)
\* the magnitudes whose string is the argument of the last conversion
Converted == {g \in Magnitudes : pc = "converted" /\ lastOp.arg = Str(g.text)}

\* C11: for a magnitude string (an optional "$", a decimal number with
\* optional thousands separators, a suffix b/B or m/M or none)
\* _convert_to_number returns the decimal number times 10^9 for the billion
\* suffix, times 10^6 for the million suffix, and the plain decimal value for
\* a string with no suffix ("$1.5B" gives 1500000000, "250M" gives 250000000).
C11SuffixScalesTheNumber ==
    \A g \in Converted :
        /\ ~lastOp.raised
        /\ lastOp.result = <<NormNum(g.m, g.e + g.k)>>

\* C11, its case: "$1.5B" was converted to 1500000000
C11Witness ==
    /\ pc = "converted"
    /\ lastOp.arg = Str(<<"$", "1", ".", "5", "B">>)
    /\ lastOp.result = <<Num(1500000000)>>

\* what is left of a string once the symbol, the separators, the unit letters
\* and the blanks around it are removed
Remainder(s) ==
    Strip(SelectSeq(s, LAMBDA c : c \notin {"$", ",", "b", "B", "m", "M"}))

\* a decimal number: an optional sign, digits, at most one point
IsDecimal(t) ==
    LET body == IF t # <<>> /\ Head(t) \in {"-", "+"} THEN Tail(t) ELSE t
    IN  /\ \A i \in DOMAIN body : IsDigit(body[i]) \/ body[i] = "."
        /\ Cardinality({i \in DOMAIN body : body[i] = "."}) <= 1
        /\ \E i \in DOMAIN body : IsDigit(body[i])

\* the raw field is "Not found", empty or null
Missing(v) == Get(v) \in {NotFound, Str(<<>>), None}

\* C12: _convert_to_number never raises, and returns None for "Not found",
\* the empty string, a "$" with no digits, None and every string whose
\* remainder is not a number; and process_item yields "Not calculable"
\* without raising whenever either raw field is "Not found", empty or null.
C12UnparseableGivesNone ==
    /\ pc = "converted" => ~lastOp.raised
    /\ (/\ pc = "converted"
        /\ \/ lastOp.arg \in {NotFound, Str(<<>>), Str(<<"$">>), None}
           \/ lastOp.arg.kind = "str" /\ ~IsDecimal(Remainder(lastOp.arg.s)))
           => lastOp.result = <<None>>
    /\ (pc = "done" /\ (Missing(item.market_cap) \/ Missing(item.annual_revenue)))
           => /\ ~lastOp.raised
              /\ lastOp.result[1].pe_ratio = NotCalculable

\* C13: _convert_to_number returns a number it is given as it is, and an item
\* whose market cap or revenue is already a number is processed without
\* raising and stored with that number (the storage engine not failing).
C13NumberPassesThrough ==
    /\ (pc = "converted" /\ lastOp.arg.kind = "num") => lastOp.result = <<lastOp.arg>>
    /\ (pc = "done" /\ lastOp.outcome \in {"committed", "raised"}) =>
           /\ item.market_cap.kind = "num" =>
                  /\ ~lastOp.raised
                  /\ \E r \in RowSet(defillama_metrics) : r.market_cap = item.market_cap
           /\ item.annual_revenue.kind = "num" =>
                  /\ ~lastOp.raised
                  /\ \E r \in RowSet(defillama_metrics) :
                         r.annualized_revenue = item.annual_revenue

=============================================================================
